---- MODULE Spec2Model ----
(***************************************************************************)
(* A model of intercom-chats.py: the paginated listing of conversation     *)
(* identifiers (get_all_conversation_ids), the serial detail fetch with    *)
(* its fixed delay (__main__, get_conversation_details), the transcript    *)
(* formatter (format_transcript) and the CSV writer (write_to_csv).         *)
(*                                                                         *)
(* Python values are encoded with uniform shapes.  A dictionary entry is a *)
(* record [k, v]: k = "missing" (the key is not in the dictionary),        *)
(* k = "null" (the key holds JSON null, Python None) or k = "val" (v is    *)
(* the value).  A Python string is a sequence of atoms (TLA+ strings);     *)
(* text that the code inspects character by character (message bodies,    *)
(* rendered timestamps) is spelled one character per atom.                 *)
(***************************************************************************)
EXTENDS Integers, Sequences, FiniteSets, TLC

VARIABLES
    pc,               \* position of the single thread of control
    payload,          \* payload['pagination']['starting_after'], or "none"
    page_count,       \* get_all_conversation_ids: page_count
    conversation_ids, \* get_all_conversation_ids: conversation_ids
    response,         \* the search response in flight
    posted,           \* the search endpoint's log: the cursor of each request
    served,           \* the search endpoint's log: the responses it served
    more,             \* the search endpoint still holds further pages
    ids,              \* __main__: ids
    all_details,      \* __main__: all_details
    i,                \* __main__: the loop index i (1-based)
    details_response, \* the detail response in flight
    calls,            \* log of the detail loop: requests, outcomes, sleeps
    file,             \* the file named CSV_FILENAME
    conversation_obj, \* format_transcript / row projection: the argument
    transcript,       \* outcome of format_transcript(conversation_obj)
    row               \* outcome of the row projection of conversation_obj

vars == <<pc, payload, page_count, conversation_ids, response, posted, served, more,
          ids, all_details, i, details_response, calls, file,
          conversation_obj, transcript, row>>

listingVars == <<payload, page_count, conversation_ids, response, posted, served, more>>
mainVars    == <<ids, all_details, i, details_response, calls, file>>
formatVars  == <<conversation_obj, transcript, row>>

(***************************************************************************)
(* Bounds of the model.                                                    *)
(***************************************************************************)
MaxPages   == 3   \* pages the bounded search endpoint serves
MaxPageLen == 2   \* summaries on one page
MaxConvs   == 3   \* conversations the search endpoint holds
MaxParts   == 2   \* parts in one conversation's part list
MaxTracked == 3   \* identifiers recorded by the liveness specification

Cursors == {"A", "B"}

Min(a, b) == IF a < b THEN a ELSE b

SeqsUpTo(S, n) == UNION {[1..k -> S] : k \in 0..n}

RECURSIVE Flatten(_)
Flatten(ss) == IF ss = <<>> THEN <<>> ELSE Head(ss) \o Flatten(Tail(ss))

(***************************************************************************)
(* Dictionary entries.                                                     *)
(***************************************************************************)
Missing(dflt) == [k |-> "missing", v |-> dflt]
Null(dflt)    == [k |-> "null", v |-> dflt]
Val(x)        == [k |-> "val", v |-> x]

(***************************************************************************)
(* Python strings and truthiness.                                          *)
(***************************************************************************)
Whitespace == {" ", "\n", "\t"}

RECURSIVE lstrip(_)
lstrip(s) == IF s # <<>> /\ Head(s) \in Whitespace THEN lstrip(Tail(s)) ELSE s

RECURSIVE rstrip(_)
rstrip(s) ==
    IF s # <<>> /\ s[Len(s)] \in Whitespace
    THEN rstrip(SubSeq(s, 1, Len(s) - 1))
    ELSE s

\* str.strip()
strip(s) == rstrip(lstrip(s))

\* str(x) inside an f-string: None renders as "None"
FStr(e) == IF e.k = "val" THEN e.v ELSE <<"None">>

\* bool(x) of a string, list or integer entry: None, "", [] and 0 are false
TruthySeq(e) == e.k = "val" /\ e.v # <<>>
TruthyInt(e) == e.k = "val" /\ e.v # 0

\* d.get(key, default) and d.get(key): a missing key gives the default (or
\* None), a key holding null gives None
GetOr(e, dflt) == IF e.k = "missing" THEN Val(dflt) ELSE e
Get(e) == IF e.k = "missing" THEN Null(e.v) ELSE e

RECURSIVE Join(_, _)
\* sep.join(blocks)
Join(blocks, sep) ==
    IF blocks = <<>> THEN <<>>
    ELSE IF Len(blocks) = 1 THEN blocks[1]
    ELSE blocks[1] \o sep \o Join(Tail(blocks), sep)

(***************************************************************************)
(* datetime.fromtimestamp(t, timezone.utc).isoformat() for integer t:      *)
(* the proleptic Gregorian date of day t div 86400 and the time of day     *)
(* t mod 86400, printed as YYYY-MM-DDTHH:MM:SS+00:00.                      *)
(***************************************************************************)
Digits == <<"0", "1", "2", "3", "4", "5", "6", "7", "8", "9">>
Digit(d) == Digits[d + 1]
Pad2(n) == <<Digit((n \div 10) % 10), Digit(n % 10)>>
Pad4(n) == Pad2(n \div 100) \o Pad2(n % 100)

\* the civil date [y, m, d] of a day number counted from 1970-01-01, by
\* 400-year eras that start on 1 March: era, day of era, year of era, day of
\* year, month counted from March
YearOfEra(doe) == (doe - doe \div 1460 + doe \div 36524 - doe \div 146096) \div 365
DayOfYear(doe, yoe) == doe - (365 * yoe + yoe \div 4 - yoe \div 100)
MonthFromMarch(doy) == (5 * doy + 2) \div 153

CivilOf(era, yoe, doy, mp) ==
    [y |-> yoe + era * 400 + (IF mp >= 10 THEN 1 ELSE 0),
     m |-> IF mp < 10 THEN mp + 3 ELSE mp - 9,
     d |-> doy - (153 * mp + 2) \div 5 + 1]

CivilFromDoy(era, yoe, doy) == CivilOf(era, yoe, doy, MonthFromMarch(doy))
CivilFromYoe(era, doe, yoe) == CivilFromDoy(era, yoe, DayOfYear(doe, yoe))
CivilFromDoe(era, doe) == CivilFromYoe(era, doe, YearOfEra(doe))
CivilFromDays(days) ==
    CivilFromDoe((days + 719468) \div 146097, (days + 719468) % 146097)

isoformat(t) ==
    LET date == CivilFromDays(t \div 86400)
        sod  == t % 86400
    IN Pad4(date.y) \o <<"-">> \o Pad2(date.m) \o <<"-">> \o Pad2(date.d)
       \o <<"T">> \o Pad2(sod \div 3600) \o <<":">> \o Pad2((sod \div 60) % 60)
       \o <<":">> \o Pad2(sod % 60) \o <<"+", "0", "0", ":", "0", "0">>

NoTimestamp == <<"No Timestamp">>

\* created_at_iso: ... .isoformat() if created_at_unix else "No Timestamp"
created_at_iso(created_at_unix) ==
    IF TruthyInt(created_at_unix) THEN isoformat(created_at_unix.v) ELSE NoTimestamp

(***************************************************************************)
(* Conversation records as the detail endpoint returns them.               *)
(***************************************************************************)
EmptyAuthor  == [name |-> Missing(<<>>), type |-> Missing(<<>>)]
EmptySource  == [body |-> Missing(<<>>), author |-> Missing(EmptyAuthor)]
EmptyParts   == [conversation_parts |-> Missing(<<>>)]
EmptyContact == [type |-> Missing(<<>>), id |-> Missing(<<>>),
                 name |-> Missing(<<>>), email |-> Missing(<<>>)]
EmptyContacts == [contacts |-> Missing(<<>>)]

Returned(x) == [st |-> "returned", value |-> x]
Raised(x)   == [st |-> "raised", value |-> x]
NotCalled   == [st |-> "not_called", value |-> <<>>]

CellText(e) == IF e.k = "val" THEN e.v ELSE <<>>

\* the header line and trimmed body of one message; tag is the marker after
\* the author's type.  None.get raises AttributeError when author is null.
MessageBlock(created_at, author_entry, tag, body) ==
    LET author == GetOr(author_entry, EmptyAuthor)
    IN IF author.k = "null" THEN Raised(<<>>)
       ELSE LET type == Get(author.v.type)
                author_name == GetOr(author.v.name, <<"Unknown ">> \o FStr(type))
            IN Returned(<<"[">> \o created_at_iso(Get(created_at)) \o <<"] ">>
                        \o FStr(author_name) \o <<" (">> \o FStr(type)
                        \o <<" - ">> \o tag \o <<"):\n">> \o strip(body))

RECURSIVE FormatPartsKeepEmpty(_, _)
\* the loop over parts without `if not body: continue`
FormatPartsKeepEmpty(parts, transcript_parts) ==
    IF parts = <<>> THEN Returned(transcript_parts)
    ELSE LET part == Head(parts)
             body == GetOr(part.body, <<>>)
             block == MessageBlock(part.created_at, part.author,
                                   FStr(GetOr(part.part_type, <<"message">>)),
                                   CellText(body))
         IN IF block.st = "raised" THEN Raised(<<>>)
            ELSE FormatPartsKeepEmpty(Tail(parts),
                                      Append(transcript_parts, block.value))

RECURSIVE FormatParts(_, _)
\* the loop over parts: transcript_parts grows by one block per part whose
\* body is truthy; an exception ends the loop
FormatParts(parts, transcript_parts) ==
    IF parts = <<>> THEN Returned(transcript_parts)
    ELSE LET part == Head(parts)
             body == GetOr(part.body, <<>>)
         IN IF ~TruthySeq(body) THEN FormatParts(Tail(parts), transcript_parts)
            ELSE LET block == MessageBlock(part.created_at, part.author,
                                           FStr(GetOr(part.part_type, <<"message">>)),
                                           body.v)
                 IN IF block.st = "raised" THEN Raised(<<>>)
                    ELSE FormatParts(Tail(parts),
                                     Append(transcript_parts, block.value))

BlockSeparator == <<"\n", "\n">>

format_transcript(convo) ==
    LET source == GetOr(convo.source, EmptySource)
    IN IF source.k = "null" THEN Raised(<<>>)
       ELSE
       LET source_body == GetOr(source.v.body, <<>>)
           initial == IF TruthySeq(source_body)
                      THEN MessageBlock(convo.created_at, source.v.author,
                                        <<"initial message">>, source_body.v)
                      ELSE Returned(<<>>)
           parts_dict == GetOr(convo.conversation_parts, EmptyParts)
       IN IF initial.st = "raised" \/ parts_dict.k = "null" THEN Raised(<<>>)
          ELSE
          LET parts == GetOr(parts_dict.v.conversation_parts, <<>>)
              first == IF TruthySeq(source_body) THEN <<initial.value>> ELSE <<>>
          IN IF parts.k = "null" THEN Raised(<<>>)
             ELSE LET all == FormatParts(parts.v, first)
                  IN IF all.st = "raised" THEN Raised(<<>>)
                     ELSE Returned(Join(all.value, BlockSeparator))

(***************************************************************************)
(* The row write_to_csv builds for one conversation, as csv writes it:     *)
(* None as the empty field, an integer in decimal.                         *)
(***************************************************************************)
RECURSIVE Dec(_)
Dec(n) == IF n < 10 THEN <<Digit(n)>> ELSE Dec(n \div 10) \o <<Digit(n % 10)>>

CellStr(e) == CellText(e)
CellInt(e) == IF e.k = "val" THEN Dec(e.v) ELSE <<>>

fieldnames == <<"id", "created_at", "updated_at", "state", "contact_type",
                "contact_id", "contact_name", "contact_email",
                "first_message_body", "full_conversation_transcript">>

EmptyRow == [f \in {fieldnames[n] : n \in 1..Len(fieldnames)} |-> <<>>]

RowOf(convo) ==
    LET source == GetOr(convo.source, EmptySource)
        made == format_transcript(convo)
        contacts_dict == GetOr(convo.contacts, EmptyContacts)
    IN IF made.st = "raised" \/ contacts_dict.k = "null" THEN Raised(EmptyRow)
       ELSE
       LET contacts_list == GetOr(contacts_dict.v.contacts, <<>>)
           contact == IF TruthySeq(contacts_list) THEN contacts_list.v[1]
                      ELSE EmptyContact
           first_body == GetOr(source.v.body, <<>>)
       IN IF first_body.k = "null" THEN Raised(EmptyRow)
          ELSE Returned(
                 [id |-> CellStr(Get(convo.id)),
                  created_at |-> CellInt(Get(convo.created_at)),
                  updated_at |-> CellInt(Get(convo.updated_at)),
                  state |-> CellStr(Get(convo.state)),
                  contact_type |-> CellStr(Get(contact.type)),
                  contact_id |-> CellStr(Get(contact.id)),
                  contact_name |-> CellStr(Get(contact.name)),
                  contact_email |-> CellStr(Get(contact.email)),
                  first_message_body |-> strip(first_body.v),
                  full_conversation_transcript |-> made.value])

(***************************************************************************)
(* The search endpoint.  A response is a transport outcome (status) and,   *)
(* when the status is "ok", a JSON body: shape "object" or "array",        *)
(* the entry 'conversations' (a list of summaries, each with or without    *)
(* an 'id'), the entry 'pages' and, inside it, the entry 'next':           *)
(*   "missing", "null"      no next block                                  *)
(*   "empty"                next is {}                                     *)
(*   "no_starting_after"    next is a non-empty object without the key     *)
(*   "null_cursor"          next.starting_after is null                    *)
(*   "cursor"               next.starting_after is the token starting_after*)
(***************************************************************************)
Summary(id) == [has_id |-> TRUE, id |-> id]

Body(shape, conversations, pages, next, cursor) ==
    [status |-> "ok", shape |-> shape, conversations |-> conversations,
     pages |-> pages, next |-> next, starting_after |-> cursor]

Failure(status) ==
    [status |-> status, shape |-> "object", conversations |-> Missing(<<>>),
     pages |-> "missing", next |-> "missing", starting_after |-> "A"]

NoResponse == Failure("none")

TransportFailures == {Failure("http_error"), Failure("network_error")}

Page(summaries, next, cursor) == Body("object", Val(summaries), "val", next, cursor)

\* The code never inspects an identifier, so the endpoint's conversations are
\* numbered 1, 2, ... and a page of n summaries served after `offset` earlier
\* ones lists offset+1 .. offset+n: any permutation, loss or repetition of
\* identifiers shows.  Page sizes, cursors and failures are arbitrary.
Summaries(offset, n) == [j \in 1..n |-> Summary(offset + j)]

PageSizes(offset) == 0..Min(MaxPageLen, MaxConvs - offset)

\* what the search endpoint documents: a list of summaries that carry their
\* identifiers, and a next block that is absent, null or holds a cursor
WellFormedBodies(offset) ==
    {Page(Summaries(offset, n), next, "A") :
        n \in PageSizes(offset), next \in {"missing", "null"}}
    \cup {Page(Summaries(offset, n), "cursor", c) :
            n \in PageSizes(offset), c \in Cursors}

\* bodies of other shapes: a summary without 'id', a next block that is
\* empty or holds no usable cursor, 'conversations' or 'pages' missing or
\* null, a body that is no JSON object
OtherBodies(offset) ==
    UNION {{Page([Summaries(offset, n) EXCEPT ![j].has_id = FALSE], next, "A") :
                j \in 1..n, next \in {"missing", "cursor"}} :
           n \in PageSizes(offset)}
    \cup {Page(Summaries(offset, n), next, "A") :
            n \in PageSizes(offset),
            next \in {"empty", "no_starting_after", "null_cursor"}}
    \cup {Body("object", c, p, "missing", "A") :
            c \in {Missing(<<>>), Null(<<>>), Val(Summaries(offset, Min(1, MaxConvs - offset)))},
            p \in {"missing", "null"}}
    \cup {Body("array", Missing(<<>>), "missing", "missing", "A")}

WellFormed(offset) == WellFormedBodies(offset) \cup TransportFailures
AnyBody(offset) ==
    WellFormedBodies(offset) \cup OtherBodies(offset) \cup TransportFailures

\* the summaries on a served response
SummariesOf(r) ==
    IF r.status = "ok" /\ r.shape = "object" /\ r.conversations.k = "val"
    THEN r.conversations.v ELSE <<>>

\* the number of summaries the endpoint has served
Offset(log) == Len(Flatten([k \in 1..Len(log) |-> SummariesOf(log[k])]))

RECURSIVE AppendIds(_, _)
\* for convo in current_page_convos: conversation_ids.append(convo['id']);
\* a summary without 'id' raises KeyError after the earlier ones are appended
AppendIds(convos, acc) ==
    IF convos = <<>> THEN Returned(acc)
    ELSE IF ~Head(convos).has_id THEN Raised(acc)
    ELSE AppendIds(Tail(convos), Append(acc, Head(convos).id))

\* bool(pagination_data.get('next'))
NextTruthy(r) == r.next \in {"no_starting_after", "null_cursor", "cursor"}

\* bool(current_page_convos and pagination_data.get('next')): the break of
\* line 35 on an empty page is missing
SearchIterationNoEmptyBreak(r, cids, pl, count) ==
    LET keep == [exit |-> "break", conversation_ids |-> cids,
                 payload |-> pl, page_count |-> count]
    IN IF r.status # "ok" THEN keep
       ELSE LET got == AppendIds(GetOr(r.conversations, <<>>).v, cids)
            IN IF r.next = "cursor"
               THEN [keep EXCEPT !.conversation_ids = got.value,
                                 !.exit = "continue",
                                 !.payload = r.starting_after,
                                 !.page_count = count + 1]
               ELSE [keep EXCEPT !.conversation_ids = got.value]

\* the except clause retries (continue) instead of leaving the loop
SearchIterationRetry(r, cids, pl, count) ==
    LET keep == [exit |-> "break", conversation_ids |-> cids,
                 payload |-> pl, page_count |-> count]
    IN IF r.status # "ok" THEN [keep EXCEPT !.exit = "continue"]
       ELSE LET got == AppendIds(GetOr(r.conversations, <<>>).v, cids)
            IN IF got.value # cids /\ r.next = "cursor"
               THEN [keep EXCEPT !.conversation_ids = got.value,
                                 !.exit = "continue",
                                 !.payload = r.starting_after,
                                 !.page_count = count + 1]
               ELSE [keep EXCEPT !.conversation_ids = got.value]

\* One iteration of the while loop on the response r (lines 30-47): what the
\* iteration leaves in conversation_ids, payload and page_count and how it
\* ends: "continue" (next iteration), "break" or "raise" (an exception that
\* is not a RequestException leaves the function).
SearchIteration(r, cids, pl, count) ==
    LET keep == [exit |-> "break", conversation_ids |-> cids,
                 payload |-> pl, page_count |-> count]
    IN IF r.status # "ok" THEN keep
       ELSE IF r.shape # "object" THEN [keep EXCEPT !.exit = "raise"]
       ELSE LET current_page_convos == GetOr(r.conversations, <<>>)
            IN IF ~TruthySeq(current_page_convos) THEN keep
               ELSE LET got == AppendIds(current_page_convos.v, cids)
                        with == [keep EXCEPT !.conversation_ids = got.value]
                    IN IF got.st = "raised" \/ r.pages = "null"
                       THEN [with EXCEPT !.exit = "raise"]
                       ELSE IF r.pages = "missing" \/ ~NextTruthy(r) THEN with
                       ELSE IF r.next = "no_starting_after"
                       THEN [with EXCEPT !.exit = "raise"]
                       ELSE [with EXCEPT
                               !.exit = "continue",
                               !.payload = IF r.next = "cursor"
                                           THEN r.starting_after ELSE "null",
                               !.page_count = count + 1]

\* the response is a page with records on it and a next block that names a
\* further page
OffersMore(r) ==
    /\ r.status = "ok" /\ r.shape = "object" /\ r.pages = "val"
    /\ r.conversations.k = "val" /\ r.conversations.v # <<>>
    /\ r.next \in {"cursor", "null_cursor"}

(***************************************************************************)
(* The detail endpoint: the record of a conversation.                      *)
(***************************************************************************)
DetailRecord(id) ==
    [id |-> Val(Dec(id)),
     created_at |-> Val(1705314600),
     updated_at |-> Val(1705314660),
     state |-> Val(<<"open">>),
     source |-> Val([body |-> Val(<<"h", "i">>),
                     author |-> Val([name |-> Val(<<"Al">>),
                                     type |-> Val(<<"user">>)])]),
     conversation_parts |-> Val([conversation_parts |-> Val(<<>>)]),
     contacts |-> Val([contacts |-> Val(<<[type |-> Val(<<"contact">>),
                                          id |-> Val(<<"u1">>),
                                          name |-> Val(<<"Al">>),
                                          email |-> Val(<<"al@x">>)]>>)])]

DetailOk(id)   == [status |-> "ok", body |-> DetailRecord(id)]
DetailFail(st) == [status |-> st, body |-> DetailRecord(1)]
NoDetail       == DetailFail("none")

DetailReplies(id) == {DetailOk(id), DetailFail("http_error"), DetailFail("network_error")}

\* get_conversation_details: the parsed record, or None
get_conversation_details(r) ==
    IF r.status = "ok" THEN Val(r.body) ELSE Null(r.body)

(***************************************************************************)
(* The output file.                                                        *)
(***************************************************************************)
NoFile  == [exists |-> FALSE, header |-> <<>>, rows |-> <<>>]
OldFile == [exists |-> TRUE, header |-> fieldnames,
            rows |-> <<[EmptyRow EXCEPT !.id = <<"old">>]>>]

RECURSIVE WriteRows(_, _)
\* the loop of write_to_csv over conversations_data: the rows written, and
\* whether an exception ended it
WriteRows(convos, rows) ==
    IF convos = <<>> THEN Returned(rows)
    ELSE LET made == RowOf(Head(convos))
         IN IF made.st = "raised" THEN Raised(rows)
            ELSE WriteRows(Tail(convos), Append(rows, made.value))

(***************************************************************************)
(* The program.  pc: "search" (top of the while loop), "await_search"      *)
(* (requests.post is blocked), "got_search" (the response has arrived),    *)
(* "listed" (get_all_conversation_ids has returned), "fetch" (top of the   *)
(* for loop body), "await_detail", "got_detail", "sleep", "write", "done", *)
(* and "raised" (an uncaught exception has ended the script).              *)
(***************************************************************************)
NotProjected == [st |-> "not_called", value |-> EmptyRow]

Init ==
    /\ pc = "search"
    /\ payload = "none"
    /\ page_count = 1
    /\ conversation_ids = <<>>
    /\ response = NoResponse
    /\ posted = <<>>
    /\ served = <<>>
    /\ more = TRUE
    /\ ids = <<>>
    /\ all_details = <<>>
    /\ i = 0
    /\ details_response = NoDetail
    /\ calls = <<>>
    /\ file \in {NoFile, OldFile}
    /\ conversation_obj = DetailRecord(1)
    /\ transcript = NotCalled
    /\ row = NotProjected

\* line 31: requests.post(..., json=payload) is issued
SearchRequest ==
    /\ pc = "search"
    /\ posted' = Append(posted, payload)
    /\ pc' = "await_search"
    /\ UNCHANGED <<payload, page_count, conversation_ids, response, served, more,
                   mainVars, formatVars>>

\* the endpoint answers with one of Bodies; it serves at most MaxPages pages
SearchReply(any) ==
    /\ pc = "await_search"
    /\ \E r \in IF any THEN AnyBody(Offset(served)) ELSE WellFormed(Offset(served)) :
         /\ OffersMore(r) => page_count < MaxPages
         /\ response' = r
         /\ served' = Append(served, r)
    /\ pc' = "got_search"
    /\ UNCHANGED <<payload, page_count, conversation_ids, posted, more,
                   mainVars, formatVars>>

ExitPc(exit) ==
    CASE exit = "continue" -> "search"
      [] exit = "break" -> "listed"
      [] exit = "raise" -> "raised"

\* lines 32-47: the rest of the iteration, on the response received
ProcessSearch ==
    /\ pc = "got_search"
    /\ LET it == SearchIteration(response, conversation_ids, payload, page_count)
       IN /\ conversation_ids' = it.conversation_ids
          /\ payload' = it.payload
          /\ page_count' = it.page_count
          /\ pc' = ExitPc(it.exit)
    /\ response' = NoResponse
    /\ UNCHANGED <<posted, served, more, mainVars, formatVars>>

\* lines 127-131: ids = get_all_conversation_ids(); all_details = []; if ids:
MainStart ==
    /\ pc = "listed"
    /\ ids' = conversation_ids
    /\ all_details' = <<>>
    /\ i' = IF conversation_ids # <<>> THEN 1 ELSE 0
    /\ pc' = IF conversation_ids # <<>> THEN "fetch" ELSE "write"
    /\ UNCHANGED <<listingVars, details_response, calls, file, formatVars>>

\* line 135 / line 54: requests.get for ids[i] is issued
DetailRequest ==
    /\ pc = "fetch"
    /\ calls' = Append(calls, [op |-> "get", id |-> ids[i]])
    /\ pc' = "await_detail"
    /\ UNCHANGED <<listingVars, ids, all_details, i, details_response, file, formatVars>>

\* the detail endpoint answers
DetailReply ==
    /\ pc = "await_detail"
    /\ details_response' \in DetailReplies(ids[i])
    /\ pc' = "got_detail"
    /\ UNCHANGED <<listingVars, ids, all_details, i, calls, file, formatVars>>

\* a failed fetch ends the for loop (break) instead of being skipped
ProcessDetailBreakOnFailure ==
    /\ pc = "got_detail"
    /\ LET details == get_conversation_details(details_response)
       IN /\ all_details' = IF details.k = "val"
                            THEN Append(all_details, details.v)
                            ELSE all_details
          /\ calls' = Append(calls, [op |-> IF details.k = "val" THEN "ok" ELSE "failed",
                                     id |-> ids[i]])
          /\ pc' = IF details.k = "val" THEN "sleep" ELSE "write"
    /\ details_response' = NoDetail
    /\ UNCHANGED <<listingVars, ids, i, file, formatVars>>

\* the sleep is inside `if details:`, so a failed fetch is not followed by it
ProcessDetailSleepOnSuccess ==
    /\ pc = "got_detail"
    /\ LET details == get_conversation_details(details_response)
       IN /\ all_details' = IF details.k = "val"
                            THEN Append(all_details, details.v)
                            ELSE all_details
          /\ calls' = Append(calls, [op |-> IF details.k = "val" THEN "ok" ELSE "failed",
                                     id |-> ids[i]])
          /\ IF details.k = "val" THEN i' = i /\ pc' = "sleep"
             ELSE IF i < Len(ids) THEN i' = i + 1 /\ pc' = "fetch"
             ELSE i' = i /\ pc' = "write"
    /\ details_response' = NoDetail
    /\ UNCHANGED <<listingVars, ids, file, formatVars>>

\* lines 55-59 and 135-137: details = get_conversation_details(convo_id);
\* if details: all_details.append(details)
ProcessDetail ==
    /\ pc = "got_detail"
    /\ LET details == get_conversation_details(details_response)
       IN /\ all_details' = IF details.k = "val"
                            THEN Append(all_details, details.v)
                            ELSE all_details
          /\ calls' = Append(calls, [op |-> IF details.k = "val" THEN "ok" ELSE "failed",
                                     id |-> ids[i]])
    /\ details_response' = NoDetail
    /\ pc' = "sleep"
    /\ UNCHANGED <<listingVars, ids, i, file, formatVars>>

\* line 138: time.sleep(0.5), then the next iteration or the end of the loop
Sleep ==
    /\ pc = "sleep"
    /\ calls' = Append(calls, [op |-> "sleep", id |-> ids[i]])
    /\ IF i < Len(ids)
       THEN i' = i + 1 /\ pc' = "fetch"
       ELSE i' = i /\ pc' = "write"
    /\ UNCHANGED <<listingVars, ids, all_details, details_response, file, formatVars>>

\* write_to_csv without the early return of lines 94-96
write_to_csvAlwaysOpens ==
    /\ pc = "write"
    /\ LET written == WriteRows(all_details, <<>>)
       IN /\ file' = [exists |-> TRUE, header |-> fieldnames, rows |-> written.value]
          /\ pc' = IF written.st = "raised" THEN "raised" ELSE "done"
    /\ UNCHANGED <<listingVars, ids, all_details, i, details_response, calls, formatVars>>

\* line 139: write_to_csv(all_details)
write_to_csv ==
    /\ pc = "write"
    /\ IF all_details = <<>>
       THEN file' = file /\ pc' = "done"
       ELSE LET written == WriteRows(all_details, <<>>)
            IN /\ file' = [exists |-> TRUE, header |-> fieldnames,
                           rows |-> written.value]
               /\ pc' = IF written.st = "raised" THEN "raised" ELSE "done"
    /\ UNCHANGED <<listingVars, ids, all_details, i, details_response, calls, formatVars>>

\* the run against an endpoint whose bodies follow its documentation
Next ==
    \/ SearchRequest
    \/ SearchReply(FALSE)
    \/ ProcessSearch
    \/ MainStart
    \/ DetailRequest
    \/ DetailReply
    \/ ProcessDetail
    \/ Sleep
    \/ write_to_csv

Spec == Init /\ [][Next]_vars

\* the run against an endpoint that may answer with a body of any shape
NextAnyBody ==
    \/ SearchRequest
    \/ SearchReply(TRUE)
    \/ ProcessSearch
    \/ MainStart
    \/ DetailRequest
    \/ DetailReply
    \/ ProcessDetail
    \/ Sleep
    \/ write_to_csv

SpecAnyBody == Init /\ [][NextAnyBody]_vars

(***************************************************************************)
(* get_all_conversation_ids alone, against an endpoint that may offer       *)
(* further pages for ever.  The loop's control flow reads neither           *)
(* conversation_ids nor page_count, so this specification records only the  *)
(* first MaxTracked identifiers, counts pages up to MaxTracked and keeps no  *)
(* logs: its states are finitely many while the loop runs on.  The endpoint  *)
(* may at any time run out of pages (more becomes FALSE); from then on it    *)
(* serves only failures and pages that offer no further page.               *)
(***************************************************************************)
Tracked(s) == SubSeq(s, 1, Min(Len(s), MaxTracked))

InitLive ==
    /\ Init
    /\ file = NoFile

LiveSearchRequest ==
    /\ pc = "search"
    /\ pc' = "await_search"
    /\ UNCHANGED <<listingVars, mainVars, formatVars>>

LiveSearchReply ==
    /\ pc = "await_search"
    /\ \E r \in AnyBody(0) :
         /\ OffersMore(r) => more
         /\ response' = r
    /\ pc' = "got_search"
    /\ UNCHANGED <<payload, page_count, conversation_ids, posted, served, more,
                   mainVars, formatVars>>

LiveProcessSearch ==
    /\ pc = "got_search"
    /\ LET it == SearchIteration(response, conversation_ids, payload, page_count)
       IN /\ conversation_ids' = Tracked(it.conversation_ids)
          /\ payload' = it.payload
          /\ page_count' = Min(it.page_count, MaxTracked)
          /\ pc' = ExitPc(it.exit)
    /\ response' = NoResponse
    /\ UNCHANGED <<posted, served, more, mainVars, formatVars>>

EndpointExhausted ==
    /\ more
    /\ pc \in {"search", "await_search", "got_search"}
    /\ more' = FALSE
    /\ UNCHANGED <<pc, payload, page_count, conversation_ids, response, posted, served,
                   mainVars, formatVars>>

NextLive ==
    \/ LiveSearchRequest
    \/ LiveSearchReply
    \/ LiveProcessSearch
    \/ EndpointExhausted

\* the thread of control always takes its next step, and every request is
\* answered
SpecLive ==
    /\ InitLive
    /\ [][NextLive]_vars
    /\ WF_vars(LiveSearchRequest)
    /\ WF_vars(LiveSearchReply)
    /\ WF_vars(LiveProcessSearch)

(***************************************************************************)
(* Vocabulary of the properties.                                           *)
(***************************************************************************)
\* get_all_conversation_ids has returned
HasReturned ==
    pc \in {"listed", "fetch", "await_detail", "got_detail", "sleep", "write", "done"}

\* the identifiers on a served page, and on the first n served pages
PageIds(r) == [j \in 1..Len(SummariesOf(r)) |-> SummariesOf(r)[j].id]
IdsOfPages(log, n) == Flatten([k \in 1..n |-> PageIds(log[k])])

\* the response carries a non-null next cursor
CarriesCursor(r) == r.status = "ok" /\ r.pages = "val" /\ r.next = "cursor"

\* the identifiers of the log entries of one kind, in log order
IdsOf(log, kind) ==
    LET Is(e) == e.op = kind
        sel == SelectSeq(log, Is)
    IN [k \in 1..Len(sel) |-> sel[k].id]

\* C1: when every response so far was successful, a search request follows
\* page k if and only if page k held at least one record and carried a
\* non-null next cursor (an empty page ends the loop even with a cursor), and
\* the returned list is the identifiers of the pages received, in order.
C1_PaginationContract ==
    (\A k \in 1..Len(served) : served[k].status = "ok") =>
        /\ \A k \in 1..Len(served) :
             /\ Len(posted) > k =>
                  SummariesOf(served[k]) # <<>> /\ CarriesCursor(served[k])
             /\ (SummariesOf(served[k]) # <<>> /\ CarriesCursor(served[k])) =>
                  Len(posted) > k \/ pc \in {"got_search", "search"}
        /\ HasReturned => conversation_ids = IdsOfPages(served, Len(served))

\* pages [2 items + cursor A, 1 item + cursor B, empty page with a cursor]
\* have been received and the three identifiers returned
C1_Witness ==
    /\ pc = "listed"
    /\ Len(served) = 3 /\ Len(posted) = 3
    /\ Len(SummariesOf(served[1])) = 2 /\ CarriesCursor(served[1])
    /\ Len(SummariesOf(served[2])) = 1 /\ CarriesCursor(served[2])
    /\ SummariesOf(served[3]) = <<>> /\ CarriesCursor(served[3])
    /\ conversation_ids = <<1, 2, 3>>

\* C2: the detail loop requests every listed identifier whatever fails, and
\* the file written holds exactly the rows of the identifiers whose fetch
\* succeeded, in listing order.
C2_FailedFetchSkipped ==
    /\ pc \in {"write", "done"} => IdsOf(calls, "get") = ids
    /\ (pc = "done" /\ IdsOf(calls, "ok") # <<>>) =>
         /\ file.exists /\ file.header = fieldnames
         /\ file.rows = [k \in 1..Len(IdsOf(calls, "ok")) |->
                           RowOf(DetailRecord(IdsOf(calls, "ok")[k])).value]

\* three identifiers, the second fetch failed, two rows written
C2_Witness ==
    /\ pc = "done"
    /\ ids = <<1, 2, 3>>
    /\ IdsOf(calls, "failed") = <<2>>
    /\ Len(file.rows) = 2
    /\ file.rows[1].id = <<"1">> /\ file.rows[2].id = <<"3">>

\* C3: a search request that fails at transport level is the last one; the
\* function returns the identifiers of the pages before it, and the detail
\* fetches and the write go on with exactly those identifiers (up to the
\* write, whose only condition is that the loop over them has ended, the
\* next step of the pipeline can always be taken).
C3_FailureStopsListing ==
    \A k \in 1..Len(served) :
        served[k].status # "ok" =>
            /\ k = Len(served) /\ Len(posted) = k
            /\ pc = "got_search" \/ HasReturned
            /\ HasReturned => conversation_ids = IdsOfPages(served, k - 1)
            /\ pc \in {"fetch", "await_detail", "got_detail", "sleep", "write", "done"}
                 => ids = IdsOfPages(served, k - 1)
            /\ pc \in {"write", "done"} => IdsOf(calls, "get") = IdsOfPages(served, k - 1)
            /\ pc \notin {"write", "done"} =>
                 ENABLED (ProcessSearch \/ MainStart \/ DetailRequest \/ DetailReply
                          \/ ProcessDetail \/ Sleep)

\* page 2 failed after a first page of two identifiers; both were fetched
\* and written
C3_Witness ==
    /\ pc = "done"
    /\ Len(served) = 2
    /\ served[2].status = "network_error"
    /\ ids = <<1, 2>>
    /\ Len(file.rows) = 2

\* C7: while no record has been fetched the output file is never touched,
\* and write_to_csv on the empty list ends normally.
C7_EmptyWriteLeavesFile ==
    [][all_details = <<>> =>
         /\ file' = file
         /\ pc = "write" => pc' = "done"]_vars

\* every fetch of a listed identifier failed, and the old file is intact
C7_Witness ==
    /\ pc = "done"
    /\ ids # <<>>
    /\ all_details = <<>>
    /\ file = OldFile

\* C10: in the detail loop's log every outcome of a fetch is followed at once
\* by the sleep, every request but the first comes right after a sleep, and
\* the write starts only after the sleep that follows the last fetch.
C10_DelayAfterEveryFetch ==
    /\ \A k \in 1..Len(calls) :
         /\ (calls[k].op \in {"ok", "failed"} /\ k < Len(calls)) =>
              calls[k + 1].op = "sleep"
         /\ (calls[k].op = "get" /\ k > 1) => calls[k - 1].op = "sleep"
         /\ (calls[k].op \in {"ok", "failed"} /\ k = Len(calls)) => pc = "sleep"
    /\ (pc \in {"write", "done"} /\ calls # <<>>) => calls[Len(calls)].op = "sleep"

\* two fetches, the first one failed, each followed by its sleep
C10_Witness ==
    /\ pc = "write"
    /\ Len(calls) = 6
    /\ calls[2].op = "failed" /\ calls[3].op = "sleep"
    /\ calls[5].op = "ok" /\ calls[6].op = "sleep"

\* C5: get_all_conversation_ids never ends by an exception.
C5_NoErrorEscapesListing == ~(pc = "raised" /\ ids = <<>> /\ calls = <<>>)

(***************************************************************************)
(* format_transcript and the row projection as pure functions: the         *)
(* argument is drawn from Conversations, then each is applied once.        *)
(***************************************************************************)
BodySamples ==
    {Missing(<<>>), Null(<<>>), Val(<<>>), Val(<<" ">>), Val(<<" ", "h", "i", "\n">>)}

AuthorSamples ==
    {Missing(EmptyAuthor), Null(EmptyAuthor),
     Val([name |-> Val(<<"Al">>), type |-> Val(<<"user">>)]),
     Val([name |-> Missing(<<>>), type |-> Val(<<"admin">>)]),
     Val([name |-> Null(<<>>), type |-> Missing(<<>>)])}

SourceSamples ==
    {Missing(EmptySource), Null(EmptySource)}
    \cup {Val([body |-> b, author |-> a]) : b \in BodySamples, a \in AuthorSamples}

CreatedSamples == {Missing(0), Null(0), Val(0), Val(1705314600)}

PartSamples ==
    {[body |-> Val(<<"r", "e">>), created_at |-> Val(1709251199),
      author |-> Val([name |-> Val(<<"Bo">>), type |-> Val(<<"admin">>)]),
      part_type |-> Val(<<"comment">>)],
     [body |-> Null(<<>>), created_at |-> Val(1709251200),
      author |-> Null(EmptyAuthor), part_type |-> Val(<<"assignment">>)],
     [body |-> Val(<<" ", "o", "k">>), created_at |-> Missing(0),
      author |-> Missing(EmptyAuthor), part_type |-> Missing(<<>>)],
     [body |-> Val(<<"x">>), created_at |-> Val(0),
      author |-> Null(EmptyAuthor), part_type |-> Val(<<"note">>)],
     [body |-> Val(<<>>), created_at |-> Val(86400),
      author |-> Val([name |-> Missing(<<>>), type |-> Val(<<"user">>)]),
      part_type |-> Val(<<"close">>)]}

PartsSamples ==
    {Missing(EmptyParts), Null(EmptyParts),
     Val([conversation_parts |-> Missing(<<>>)]),
     Val([conversation_parts |-> Null(<<>>)])}
    \cup {Val([conversation_parts |-> Val(ps)]) : ps \in SeqsUpTo(PartSamples, MaxParts)}

ContactSample ==
    [type |-> Val(<<"contact">>), id |-> Val(<<"u1">>),
     name |-> Null(<<>>), email |-> Val(<<"al@x">>)]

ContactsSamples ==
    {Missing(EmptyContacts), Null(EmptyContacts),
     Val([contacts |-> Null(<<>>)]), Val([contacts |-> Val(<<>>)]),
     Val([contacts |-> Val(<<ContactSample, EmptyContact>>)])}

\* timestamps on both sides of minute, day, month, leap-day and year ends
TimestampSamples ==
    {0, 1, 59, 60, 3599, 86399, 86400, 68169600, 951782400, 951868799,
     978307199, 978307200, 1078099199, 1582934400, 1583020800, 1705314600,
     1709251199, 2147483647}

Conversations ==
    {[id |-> Val(<<"7">>), created_at |-> t, updated_at |-> Missing(0),
      state |-> Val(<<"open">>), source |-> src, conversation_parts |-> ps,
      contacts |-> cs] :
        t \in CreatedSamples, src \in SourceSamples, ps \in PartsSamples,
        cs \in ContactsSamples}
    \cup {[DetailRecord(7) EXCEPT !.created_at = Val(t)] : t \in TimestampSamples}

InitFormat ==
    /\ pc = "format"
    /\ payload = "none"
    /\ page_count = 1
    /\ conversation_ids = <<>>
    /\ response = NoResponse
    /\ posted = <<>>
    /\ served = <<>>
    /\ more = TRUE
    /\ ids = <<>>
    /\ all_details = <<>>
    /\ i = 0
    /\ details_response = NoDetail
    /\ calls = <<>>
    /\ file = NoFile
    /\ conversation_obj \in Conversations
    /\ transcript = NotCalled
    /\ row = NotProjected

\* transcript = format_transcript(conversation_obj)
FormatTranscript ==
    /\ pc = "format"
    /\ transcript.st = "not_called"
    /\ transcript' = format_transcript(conversation_obj)
    /\ UNCHANGED <<pc, listingVars, mainVars, conversation_obj, row>>

\* lines 107-123: the row write_to_csv builds for conversation_obj
ProjectRow ==
    /\ pc = "format"
    /\ row.st = "not_called"
    /\ row' = RowOf(conversation_obj)
    /\ UNCHANGED <<pc, listingVars, mainVars, conversation_obj, transcript>>

NextFormat == FormatTranscript \/ ProjectRow

SpecFormat == InitFormat /\ [][NextFormat]_vars

(***************************************************************************)
(* Reading a rendered transcript back.                                     *)
(***************************************************************************)
RECURSIVE IndexOf(_, _, _)
\* the first position at or after `from` where atom a stands, or 0
IndexOf(text, a, from) ==
    IF from > Len(text) THEN 0
    ELSE IF text[from] = a THEN from
    ELSE IndexOf(text, a, from + 1)

\* the timestamp of the first header: what stands between "[" and "] "
StampOf(text) == SubSeq(text, 2, IndexOf(text, "] ", 1) - 1)

IsDigit(c) == \E d \in 0..9 : Digits[d + 1] = c
DigitValue(c) == CHOOSE d \in 0..9 : Digits[d + 1] = c
Num2(stamp, at) == 10 * DigitValue(stamp[at]) + DigitValue(stamp[at + 1])

\* YYYY-MM-DDTHH:MM:SS+00:00
IsIsoUtc(stamp) ==
    /\ Len(stamp) = 25
    /\ \A k \in {1, 2, 3, 4, 6, 7, 9, 10, 12, 13, 15, 16, 18, 19} : IsDigit(stamp[k])
    /\ stamp[5] = "-" /\ stamp[8] = "-" /\ stamp[11] = "T"
    /\ stamp[14] = ":" /\ stamp[17] = ":"
    /\ SubSeq(stamp, 20, 25) = <<"+", "0", "0", ":", "0", "0">>

\* days from 1970-01-01 to the civil date y-m-d
DaysOfEra(yoe, m, d) ==
    yoe * 365 + yoe \div 4 - yoe \div 100
    + (153 * (IF m > 2 THEN m - 3 ELSE m + 9) + 2) \div 5 + d - 1
DaysFromMarchYear(y, m, d) ==
    (y \div 400) * 146097 + DaysOfEra(y % 400, m, d) - 719468
DaysFromCivil(y, m, d) == DaysFromMarchYear(IF m <= 2 THEN y - 1 ELSE y, m, d)

\* the seconds since the epoch that an ISO-8601 UTC timestamp denotes
ParseIso(stamp) ==
    DaysFromCivil(100 * Num2(stamp, 1) + Num2(stamp, 3), Num2(stamp, 6),
                  Num2(stamp, 9)) * 86400
    + Num2(stamp, 12) * 3600 + Num2(stamp, 15) * 60 + Num2(stamp, 18)

NonEmptyBody(e) == e.k = "val" /\ Len(e.v) > 0

SourceOf(c) == GetOr(c.source, EmptySource).v
PartsOf(c) ==
    CellText(GetOr(GetOr(c.conversation_parts, EmptyParts).v.conversation_parts, <<>>))

\* the parts that have body text, in the order of the part list
PartsWithBody(c) ==
    LET HasBody(part) == NonEmptyBody(part.body)
    IN SelectSeq(PartsOf(c), HasBody)

\* the blocks a transcript is to hold: the initial message when it has body
\* text, then one block per part that has body text
ExpectedBlocks(c) ==
    (IF NonEmptyBody(SourceOf(c).body)
     THEN <<MessageBlock(c.created_at, SourceOf(c).author, <<"initial message">>,
                         SourceOf(c).body.v).value>>
     ELSE <<>>)
    \o [k \in 1..Len(PartsWithBody(c)) |->
          MessageBlock(PartsWithBody(c)[k].created_at, PartsWithBody(c)[k].author,
                       FStr(GetOr(PartsWithBody(c)[k].part_type, <<"message">>)),
                       PartsWithBody(c)[k].body.v).value]

RECURSIVE StartOf(_, _)
\* where block k starts in a text whose blocks are two atoms apart
StartOf(blocks, k) ==
    IF k = 1 THEN 1 ELSE StartOf(blocks, k - 1) + Len(blocks[k - 1]) + 2

\* the timestamp entry that the first header of the transcript renders
FirstRendered(c) ==
    IF NonEmptyBody(SourceOf(c).body) THEN c.created_at
    ELSE PartsWithBody(c)[1].created_at

\* C6: a returned transcript consists of the expected blocks, each in its
\* place and in order, with exactly the two-newline separator between
\* consecutive blocks and nothing else; with no block it is empty.
C6_TranscriptBlocks ==
    transcript.st = "returned" =>
        /\ \A k \in 1..Len(ExpectedBlocks(conversation_obj)) :
             SubSeq(transcript.value,
                    StartOf(ExpectedBlocks(conversation_obj), k),
                    StartOf(ExpectedBlocks(conversation_obj), k + 1) - 3)
               = ExpectedBlocks(conversation_obj)[k]
        /\ \A k \in 1..(Len(ExpectedBlocks(conversation_obj)) - 1) :
             SubSeq(transcript.value,
                    StartOf(ExpectedBlocks(conversation_obj), k + 1) - 2,
                    StartOf(ExpectedBlocks(conversation_obj), k + 1) - 1)
               = <<"\n", "\n">>
        /\ Len(transcript.value) =
             IF ExpectedBlocks(conversation_obj) = <<>> THEN 0
             ELSE StartOf(ExpectedBlocks(conversation_obj),
                          Len(ExpectedBlocks(conversation_obj)) + 1) - 3

\* an initial message and two parts, the first without body: two blocks
C6_Witness ==
    /\ transcript.st = "returned"
    /\ NonEmptyBody(SourceOf(conversation_obj).body)
    /\ Len(PartsOf(conversation_obj)) = 2
    /\ PartsOf(conversation_obj)[1].body.k = "null"
    /\ NonEmptyBody(PartsOf(conversation_obj)[2].body)
    /\ Len(ExpectedBlocks(conversation_obj)) = 2
    /\ Len(transcript.value) > 4

\* C8: the timestamp in a header is a UTC ISO-8601 string that parses back
\* to the record's integer timestamp, and it is the placeholder exactly when
\* the record has no timestamp.
C8_TimestampRoundTrip ==
    (transcript.st = "returned" /\ transcript.value # <<>>) =>
        /\ Get(FirstRendered(conversation_obj)).k = "val" =>
             /\ IsIsoUtc(StampOf(transcript.value))
             /\ ParseIso(StampOf(transcript.value)) = FirstRendered(conversation_obj).v
        /\ StampOf(transcript.value) = NoTimestamp
             <=> Get(FirstRendered(conversation_obj)).k # "val"

\* the same round trip for every timestamp but 0
C8_NonZeroRoundTrip ==
    (transcript.st = "returned" /\ transcript.value # <<>>
     /\ TruthyInt(Get(FirstRendered(conversation_obj)))) =>
        /\ IsIsoUtc(StampOf(transcript.value))
        /\ ParseIso(StampOf(transcript.value)) = FirstRendered(conversation_obj).v

\* C9: neither format_transcript nor the row projection raises, and a record
\* without a contacts list gets four empty contact columns.
C9_FormattingNeverFails ==
    /\ transcript.st # "raised"
    /\ row.st # "raised"
    /\ (row.st = "returned" /\ conversation_obj.contacts.k = "missing") =>
         /\ row.value.contact_type = <<>> /\ row.value.contact_id = <<>>
         /\ row.value.contact_name = <<>> /\ row.value.contact_email = <<>>

\* the row projection raises on a null initial body that format_transcript
\* has accepted
C9_NullBodyRaises ==
    /\ transcript.st = "returned"
    /\ row.st = "raised"
    /\ conversation_obj.source.k = "val"
    /\ conversation_obj.source.v.body.k = "null"
    /\ conversation_obj.contacts.k = "missing"
    /\ conversation_obj.conversation_parts.k = "missing"

\* no key of the record holds null: every failure of C9 involves a null
C9_OnlyNullsRaise ==
    (transcript.st = "raised" \/ row.st = "raised") =>
        \/ conversation_obj.source.k = "null"
        \/ SourceOf(conversation_obj).body.k = "null"
        \/ SourceOf(conversation_obj).author.k = "null"
        \/ conversation_obj.conversation_parts.k = "null"
        \/ GetOr(conversation_obj.conversation_parts, EmptyParts).v.conversation_parts.k = "null"
        \/ conversation_obj.contacts.k = "null"
        \/ \E k \in 1..Len(PartsOf(conversation_obj)) :
             PartsOf(conversation_obj)[k].author.k = "null"

\* C4 as stated: whatever the endpoint does, the listing loop eventually
\* exits (here even an exit by an exception counts).
C4_ListingTerminates == <>(pc \in {"listed", "raised"})

\* C4 as amended: once the endpoint offers no further page, the loop exits:
\* the function returns or, on a body of a shape it does not expect, raises.
C4_ExitsOnceExhausted == (~more) ~> (pc \in {"listed", "raised"})

\* the endpoint ran out of pages after the first one, and the function has
\* returned
C4_Witness ==
    /\ ~more
    /\ pc = "listed"
    /\ page_count > 1
    /\ conversation_ids # <<>>

====
